---- MODULE Spec2Model ----
(***************************************************************************)
(* Purchase / licensing flow of the RiffRent backend (apps/tracks).        *)
(*                                                                         *)
(* The database tables (Track, LicenseType, Purchase) and the payment      *)
(* collaborator's intents are the shared state.  Every HTTP request is     *)
(* handled by a worker that holds in-memory copies of the rows it read;    *)
(* a handler is split into steps exactly where it goes back to the         *)
(* database or to the collaborator, so that requests interleave the way    *)
(* independent workers over one database do.                               *)
(*                                                                         *)
(* Track.save (metadata extraction, preview derivation) is modelled twice: *)
(* as the effect a view's save has on the catalogue, and step by step on   *)
(* one Track instance (inst, persisted, call, log).                        *)
(*                                                                         *)
(* Money: base_price and price_paid in cents, price_multiplier in          *)
(* hundredths, a computed license price in 1/10000 of the currency unit.   *)
(***************************************************************************)
EXTENDS Integers, Sequences, FiniteSets, TLC

VARIABLES
    tracks,      \* Track table: public_id -> row
    purchases,   \* Purchase table: sequence of rows, the index is the public_id
    intents,     \* payment collaborator: sequence of PaymentIntents, index = id
    req,         \* worker -> the request it is handling (position and locals)
    last,        \* the response a handler has returned and that is being sent
    served,      \* per purchase: FileResponses of the audio file handed out,
                 \* counted up to one more than the purchase's max_downloads
    renders,     \* per purchase: invocations of the certificate renderer
    issued,      \* per purchase: certificate responses handed out, up to two
    inst,        \* Track.save in detail: the in-memory Track instance (self)
    persisted,   \* ... the instance's row in the Track table
    call,        \* ... the running save(): position, is_new, its kwargs
    log          \* ... what the latest save() did, in order

vars == <<tracks, purchases, intents, req, last, served, renders, issued,
          inst, persisted, call, log>>

\* the state of the purchase flow and catalogue; the state of one Track.save
flowVars == <<tracks, purchases, intents, req, last, served, renders, issued>>
saveVars == <<inst, persisted, call, log>>

(***************************************************************************)
(* Bounds of the model                                                     *)
(***************************************************************************)
MaxIntents == 2       \* payment intents, purchase-flow specification
MaxSeqIntents == 1    \* payment intents, sequential specification
MaxDlIntents == 1     \* payment intents, download specification
MaxUploads == 1       \* tracks uploaded, catalogue specification
MaxPlays == 1         \* plays counted, catalogue specification
MaxSaves == 3         \* calls of Track.save, save specification

(***************************************************************************)
(* Program constants                                                       *)
(***************************************************************************)
DefaultMaxDownloads == 3

Workers == {"w1", "w2"}
Users == {"u1", "u2"}

\* User.role of the accounts, and the callers of an endpoint: an account or a
\* request without credentials
Role == [u1 |-> "buyer", u2 |-> "buyer", a1 |-> "artist"]
Anonymous == "anon"
Callers == {Anonymous, "u1", "a1"}

APPROVED == "approved"
DRAFT == "draft"
PENDING == "pending"
REJECTED == "rejected"

\* public ids a request may carry: the two stored tracks, an unknown id, none
TrackIds == {"t1", "t2"}
RequestTrackIds == TrackIds \cup {"tX", ""}

\* public ids given to uploaded tracks, in the order of upload, and the
\* base_price values an upload may carry
UploadIds == <<"t3", "t4", "t5">>
BasePrices == {100, 1001}

\* LicenseType table (reference data) and the names a request may carry
LicenseTypes ==
    [extended  |-> [price_multiplier |-> 250,  is_active |-> TRUE],
     exclusive |-> [price_multiplier |-> 1000, is_active |-> FALSE]]
LicenseNames == DOMAIN LicenseTypes
RequestLicenseNames == LicenseNames \cup {"bogus"}

IdleReq == [pc |-> "idle", track |-> "", purchase |-> 0, snap |-> 0, row |-> <<>>]
\* a response: status code, message, and for a track detail the serialized
\* base_price and license_prices
NoBody == [base_price |-> 0, license_prices |-> <<>>]
NoResp == [code |-> 0, msg |-> "", body |-> NoBody]
Response(code, msg) == [code |-> code, msg |-> msg, body |-> NoBody]

(***************************************************************************)
(* Track                                                                   *)
(***************************************************************************)
\* round(x / q) to the nearest integer, ties to the even one, for x >= 0
RoundHalfEven(x, q) ==
    LET f == x \div q
        r == x % q
    IN  IF 2 * r < q THEN f
        ELSE IF 2 * r > q THEN f + 1
        ELSE IF f % 2 = 0 THEN f ELSE f + 1

\* as ApprovedTrack, had the lookup no status filter
AnyStoredTrack(tid) == tid \in DOMAIN tracks

\* Track.objects.get(public_id=track_id, status=Track.APPROVED)
ApprovedTrack(tid) ==
    /\ tid \in DOMAIN tracks
    /\ tracks[tid].status = APPROVED

\* as GetLicensePrice, had the lookup no is_active filter
GetLicensePriceAnyTier(tid, name) ==
    IF name \in LicenseNames
    THEN tracks[tid].base_price * LicenseTypes[name].price_multiplier
    ELSE tracks[tid].base_price * 100

\* Track.get_license_price, in 1/10000 units
GetLicensePrice(tid, name) ==
    IF name \in LicenseNames /\ LicenseTypes[name].is_active
    THEN tracks[tid].base_price * LicenseTypes[name].price_multiplier
    ELSE tracks[tid].base_price * 100

\* amount = int(price * 100): minor units, truncated
IntentAmount(tid, name) == GetLicensePrice(tid, name) \div 100

(***************************************************************************)
(* Purchase                                                                *)
(***************************************************************************)
PurchaseIds == 1..Len(purchases)

\* as CanDownload, had the comparison been <=
CanDownloadInclusive(row) ==
    /\ row.payment_status = "succeeded"
    /\ row.download_count <= row.max_downloads

\* Purchase.can_download
CanDownload(row) ==
    /\ row.payment_status = "succeeded"
    /\ row.download_count < row.max_downloads

\* Purchase.objects.filter(buyer, track, license_type__name, payment_status='succeeded').exists()
ExistingPurchase(u, tid, name) ==
    \E p \in PurchaseIds :
        /\ purchases[p].buyer = u
        /\ purchases[p].track = tid
        /\ purchases[p].license_type = name
        /\ purchases[p].payment_status = "succeeded"

\* as OwnedPurchase, had the lookup been by public_id alone
AnyStoredPurchase(u, p) == p \in PurchaseIds

\* get_object_or_404(Purchase, public_id=purchase_id, buyer=request.user, payment_status='succeeded')
OwnedPurchase(u, p) ==
    /\ p \in PurchaseIds
    /\ purchases[p].buyer = u
    /\ purchases[p].payment_status = "succeeded"

\* unique_together = ['buyer', 'track', 'license_type']
UniqueTogetherViolated(u, tid, name) ==
    \E p \in PurchaseIds :
        /\ purchases[p].buyer = u
        /\ purchases[p].track = tid
        /\ purchases[p].license_type = name

\* stripe_payment_intent_id = CharField(unique=True)
UniqueIntentViolated(i) ==
    \E p \in PurchaseIds : purchases[p].intent = i

\* as InsertRejected, had Purchase.Meta no unique_together
InsertRejectedIntentOnly(u, tid, name, i) == UniqueIntentViolated(i)

\* The storage layer's decision on the INSERT of confirm_purchase
InsertRejected(u, tid, name, i) ==
    UniqueTogetherViolated(u, tid, name) \/ UniqueIntentViolated(i)

\* as NewPurchase, had the view stored the price it computes itself, rounded
\* to the cent, instead of the amount the collaborator reports
NewPurchaseRepriced(u, tid, name, i, amount) ==
    [buyer |-> u, track |-> tid, license_type |-> name, intent |-> i,
     price_paid |-> RoundHalfEven(GetLicensePrice(tid, name), 100),
     payment_status |-> "succeeded",
     download_count |-> 0, max_downloads |-> DefaultMaxDownloads,
     license_file |-> 0]

\* Purchase.objects.create(...) with the model's defaults
NewPurchase(u, tid, name, i, amount) ==
    [buyer |-> u, track |-> tid, license_type |-> name, intent |-> i,
     price_paid |-> amount, payment_status |-> "succeeded",
     download_count |-> 0, max_downloads |-> DefaultMaxDownloads,
     license_file |-> 0]

(***************************************************************************)
(* Track.save in detail                                                    *)
(*                                                                         *)
(* One Track instance, from the upload that builds it through the saves    *)
(* made on it.  save() is split where it goes to the decoder or to the     *)
(* database: extract, write, preview, write_preview.  Lengths are in       *)
(* milliseconds, as the decoder reports them.                              *)
(***************************************************************************)
\* a null column (duration, file_size, bitrate, sample_rate: null=True)
Unset == -1

\* the files a caller uploads: the length pydub decodes (or decodes |-> FALSE:
\* AudioSegment.from_file raises), what mutagen makes of the file ("mp3": an
\* MP3/MP4 with bitrate and sample_rate, "other": another type or None,
\* "error": MutagenFile raises), and the size in bytes
AudioFiles ==
    [clip20   |-> [ms |-> 20000, decodes |-> TRUE,  info |-> "mp3",
                   size |-> 320000],
     clip30   |-> [ms |-> 30000, decodes |-> TRUE,  info |-> "mp3",
                   size |-> 480000],
     clip30_5 |-> [ms |-> 30500, decodes |-> TRUE,  info |-> "mp3",
                   size |-> 488000],
     song31   |-> [ms |-> 31000, decodes |-> TRUE,  info |-> "other",
                   size |-> 496000],
     song50   |-> [ms |-> 50000, decodes |-> TRUE,  info |-> "error",
                   size |-> 800000],
     corrupt  |-> [ms |-> 0,     decodes |-> FALSE, info |-> "error",
                   size |-> 1000]]

AudioNames == DOMAIN AudioFiles

\* a FieldFile: the file it names and whether it has been written to storage
NoAudio == [name |-> "", committed |-> FALSE]
Upload(f) == [name |-> f, committed |-> FALSE]

\* a preview: where it comes from, and for a generated one the audio it was
\* cut from with the start and the length of the slice
NoPreview == [kind |-> "", of |-> "", start |-> 0, len |-> 0]
SuppliedPreview == [kind |-> "supplied", of |-> "", start |-> 0, len |-> 0]

NoInst ==
    [pk |-> FALSE, audio_file |-> NoAudio, preview_file |-> NoPreview,
     duration |-> Unset, file_size |-> Unset, bitrate |-> Unset,
     sample_rate |-> Unset, play_count |-> 0]

NoRow ==
    [pk |-> FALSE, audio_file |-> "", preview_file |-> NoPreview,
     duration |-> Unset, file_size |-> Unset, bitrate |-> Unset,
     sample_rate |-> Unset, play_count |-> 0]

\* the columns the instance i is written to, its files committed
RowOf(i) ==
    [pk |-> TRUE, audio_file |-> i.audio_file.name,
     preview_file |-> i.preview_file,
     duration |-> i.duration, file_size |-> i.file_size,
     bitrate |-> i.bitrate, sample_rate |-> i.sample_rate,
     play_count |-> i.play_count]

\* the instance a query builds from the row r
FromRow(r) ==
    [pk |-> TRUE, audio_file |-> [name |-> r.audio_file, committed |-> TRUE],
     preview_file |-> r.preview_file,
     duration |-> r.duration, file_size |-> r.file_size,
     bitrate |-> r.bitrate, sample_rate |-> r.sample_rate,
     play_count |-> r.play_count]

\* save() and save(update_fields=[...])
NoKwargs == [given |-> FALSE, update_fields |-> {}]
UpdateFields(S) == [given |-> TRUE, update_fields |-> S]

IdleCall == [pc |-> "idle", is_new |-> FALSE, kwargs |-> NoKwargs, saves |-> 0]

\* AudioSegment.from_file(self.audio_file.path): the path of a file that is
\* not committed is MEDIA_ROOT/<the upload's name>, where no file is
Decodes(file) == file.committed /\ AudioFiles[file.name].decodes

\* int(len(audio) / 1000)
DurationSeconds(ms) == ms \div 1000

\* if not self.pk or 'audio_file' in kwargs.get('update_fields', [])
ExtractRuns(i, kwargs) ==
    ~i.pk \/ "audio_file" \in kwargs.update_fields

\* _extract_audio_metadata: where it stops
ExtractOutcome(i) ==
    IF i.audio_file = NoAudio THEN "return"
    ELSE IF ~Decodes(i.audio_file) THEN "decode_error"
    ELSE IF AudioFiles[i.audio_file.name].info = "error" THEN "info_error"
    ELSE "done"

\* _extract_audio_metadata: the instance it leaves
ExtractAudioMetadata(i) ==
    LET f == AudioFiles[i.audio_file.name]
        decoded == [i EXCEPT !.duration = DurationSeconds(f.ms),
                             !.file_size = f.size]
    IN  CASE ExtractOutcome(i) \in {"return", "decode_error"} -> i
          [] ExtractOutcome(i) = "info_error" -> decoded
          [] OTHER ->
                IF f.info = "mp3"
                THEN [decoded EXCEPT !.bitrate = 128000, !.sample_rate = 44100]
                ELSE decoded

\* preview_duration_ms = 30 * 1000
PreviewDurationMs == 30 * 1000

MinOf(a, b) == IF a < b THEN a ELSE b

\* as PreviewClip, had the test been duration_ms >= preview_duration_ms
PreviewClipInclusive(ms) ==
    IF ms >= PreviewDurationMs
    THEN [start |-> ms \div 4,
          len |-> MinOf(ms \div 4 + PreviewDurationMs, ms) - ms \div 4]
    ELSE [start |-> 0, len |-> ms]

\* as PreviewClip, had the slice started in the middle of the track
PreviewClipMiddle(ms) ==
    IF ms > PreviewDurationMs
    THEN [start |-> ms \div 2,
          len |-> MinOf(ms \div 2 + PreviewDurationMs, ms) - ms \div 2]
    ELSE [start |-> 0, len |-> ms]

\* the slice _generate_preview cuts from audio of ms milliseconds:
\* audio[start_time:start_time + preview_duration_ms], or audio
PreviewClip(ms) ==
    IF ms > PreviewDurationMs
    THEN [start |-> ms \div 4,
          len |-> MinOf(ms \div 4 + PreviewDurationMs, ms) - ms \div 4]
    ELSE [start |-> 0, len |-> ms]

\* preview_file after _generate_preview; ok: the export to mp3 goes through
GeneratePreview(i, ok) ==
    IF i.audio_file # NoAudio /\ Decodes(i.audio_file) /\ ok
    THEN [kind |-> "generated", of |-> i.audio_file.name,
          start |-> PreviewClip(AudioFiles[i.audio_file.name].ms).start,
          len |-> PreviewClip(AudioFiles[i.audio_file.name].ms).len]
    ELSE i.preview_file

\* Track(**validated_data): the instance an upload builds, not saved yet
TrackCreate(f, preview) ==
    /\ call.pc = "idle"
    /\ inst = NoInst /\ persisted = NoRow
    /\ inst' = [NoInst EXCEPT !.audio_file = Upload(f),
                              !.preview_file = preview]
    /\ UNCHANGED <<persisted, call, log>>
    /\ UNCHANGED flowVars

\* track.audio_file = <another upload>
ReplaceAudio(f) ==
    /\ call.pc = "idle"
    /\ inst.pk
    /\ f # inst.audio_file.name
    /\ inst' = [inst EXCEPT !.audio_file = Upload(f)]
    /\ UNCHANGED <<persisted, call, log>>
    /\ UNCHANGED flowVars

\* a query loads the track again
LoadTrack ==
    /\ call.pc = "idle"
    /\ persisted.pk
    /\ inst # FromRow(persisted)
    /\ inst' = FromRow(persisted)
    /\ UNCHANGED <<persisted, call, log>>
    /\ UNCHANGED flowVars

\* save(**kwargs) is entered: is_new = not self.pk
EnterSave(kwargs) ==
    /\ call.pc = "idle"
    /\ inst.audio_file # NoAudio
    /\ call.saves < MaxSaves
    /\ kwargs.given => inst.pk
    /\ call' = [pc |-> "extract", is_new |-> ~inst.pk, kwargs |-> kwargs,
                saves |-> call.saves + 1]
    /\ log' = <<>>
    /\ UNCHANGED persisted
    /\ UNCHANGED flowVars

TrackSave(kwargs) ==
    /\ EnterSave(kwargs)
    /\ UNCHANGED inst

\* increment_play_count
IncrementPlayCount ==
    /\ inst.pk
    /\ EnterSave(UpdateFields({"play_count"}))
    /\ inst' = [inst EXCEPT !.play_count = @ + 1]

\* save, lines 219-220
SaveExtract ==
    /\ call.pc = "extract"
    /\ IF ExtractRuns(inst, call.kwargs)
       THEN /\ inst' = ExtractAudioMetadata(inst)
            /\ log' = log \o <<"extract">>
                   \o (IF ExtractOutcome(inst) \in {"decode_error", "info_error"}
                       THEN <<"extract_error">> ELSE <<>>)
       ELSE UNCHANGED <<inst, log>>
    /\ call' = [call EXCEPT !.pc = "write"]
    /\ UNCHANGED persisted
    /\ UNCHANGED flowVars

\* the instance after super().save(**kwargs): it has a key, and the files of
\* the columns written are committed to storage
Written(i, kwargs) ==
    [i EXCEPT !.pk = TRUE,
              !.audio_file.committed =
                  @ \/ ~kwargs.given \/ "audio_file" \in kwargs.update_fields]

\* the row after super().save(**kwargs): every column, or the named ones
WrittenRow(r, i, kwargs) ==
    IF ~kwargs.given THEN RowOf(i)
    ELSE [c \in DOMAIN r |->
            IF c \in kwargs.update_fields THEN RowOf(i)[c] ELSE r[c]]

\* if is_new or not self.preview_file
PreviewRuns(i, is_new) == is_new \/ i.preview_file = NoPreview

\* save, line 221 and the test of line 223
SaveWrite ==
    /\ call.pc = "write"
    /\ inst' = Written(inst, call.kwargs)
    /\ persisted' = WrittenRow(persisted, inst, call.kwargs)
    /\ log' = Append(log, "write")
    /\ call' = [call EXCEPT !.pc = IF PreviewRuns(inst, call.is_new)
                                   THEN "preview" ELSE "idle"]
    /\ UNCHANGED flowVars

\* save, line 224
SaveGeneratePreview(ok) ==
    /\ call.pc = "preview"
    /\ inst' = [inst EXCEPT !.preview_file = GeneratePreview(inst, ok)]
    /\ log' = log \o <<"preview">>
           \o (IF inst.audio_file # NoAudio
                  /\ ~(Decodes(inst.audio_file) /\ ok)
               THEN <<"preview_error">> ELSE <<>>)
    /\ call' = [call EXCEPT !.pc = "write_preview"]
    /\ UNCHANGED persisted
    /\ UNCHANGED flowVars

\* save, line 225: super().save(update_fields=['preview_file'])
SaveWritePreview ==
    /\ call.pc = "write_preview"
    /\ persisted' = WrittenRow(persisted, inst, UpdateFields({"preview_file"}))
    /\ log' = Append(log, "write_preview")
    /\ call' = [call EXCEPT !.pc = "idle"]
    /\ UNCHANGED inst
    /\ UNCHANGED flowVars

\* One track: the upload, the saves made on it, its audio replaced, the track
\* loaded again.
SaveNext ==
    \/ \E f \in AudioNames, preview \in {NoPreview, SuppliedPreview} :
          TrackCreate(f, preview)
    \/ \E f \in AudioNames : ReplaceAudio(f)
    \/ LoadTrack
    \/ \E kwargs \in {NoKwargs, UpdateFields({"audio_file"})} : TrackSave(kwargs)
    \/ IncrementPlayCount
    \/ SaveExtract
    \/ SaveWrite
    \/ \E ok \in BOOLEAN : SaveGeneratePreview(ok)
    \/ SaveWritePreview

(***************************************************************************)
(* Initial state: the catalogue holds one approved track with its audio    *)
(* on disk or not, and one track left in the model's default status; no    *)
(* purchase and no payment intent exists.                                  *)
(***************************************************************************)
InitTracks(audio) ==
    [t \in TrackIds |->
        IF t = "t1"
        THEN [status |-> APPROVED, base_price |-> 1003, audio_on_disk |-> audio,
              purchase_count |-> 0, play_count |-> 0, preview_file |-> TRUE,
              artist |-> "a1"]
        ELSE [status |-> DRAFT, base_price |-> 500, audio_on_disk |-> TRUE,
              purchase_count |-> 0, play_count |-> 0, preview_file |-> TRUE,
              artist |-> "a1"]]

Init ==
    /\ \E audio \in BOOLEAN : tracks = InitTracks(audio)
    /\ purchases = <<>>
    /\ intents = <<>>
    /\ req = [w \in Workers |-> IdleReq]
    /\ last = NoResp
    /\ served = <<>>
    /\ renders = <<>>
    /\ issued = <<>>
    /\ inst = NoInst
    /\ persisted = NoRow
    /\ call = IdleCall
    /\ log = <<>>

\* Track.save in detail, on one track
SaveSpec == Init /\ [][SaveNext]_vars

(***************************************************************************)
(* Request plumbing                                                        *)
(***************************************************************************)
Idle(w) == req[w].pc = "idle"

\* the handler returns: the worker is free again and the response is recorded
Return(w, code, msg) ==
    /\ req' = [req EXCEPT ![w] = IdleReq]
    /\ last' = Response(code, msg)
    /\ UNCHANGED saveVars

\* the handler goes on to its next step with the locals r
Continue(w, r) ==
    /\ req' = [req EXCEPT ![w] = r]
    /\ UNCHANGED last
    /\ UNCHANGED saveVars

\* a request is handed to the first worker that is free
FirstFree == CHOOSE w \in Workers : Idle(w) /\ (w = "w1" \/ ~Idle("w1"))

Start(w) ==
    /\ Idle(w)
    /\ w = FirstFree

\* the response of the handler that just returned goes out to the client
ResponseSent ==
    /\ last # NoResp
    /\ last' = NoResp
    /\ UNCHANGED <<tracks, purchases, intents, req, served, renders, issued>>
    /\ UNCHANGED saveVars

(***************************************************************************)
(* create_payment_intent                                                   *)
(*                                                                         *)
(* The handler reads the database (track, existing purchase, price) and    *)
(* then calls the collaborator; it writes nothing to the database, so it   *)
(* is one step.  ok is whether stripe.PaymentIntent.create goes through.   *)
(***************************************************************************)
\* the checks that precede the call to the payment collaborator
CreatePaymentIntentAllowed(u, tid, name) ==
    /\ ApprovedTrack(tid)
    /\ ~ExistingPurchase(u, tid, name)

\* the request would make the collaborator create one more intent
CreatesIntent(u, tid, name, ok) ==
    tid # "" /\ CreatePaymentIntentAllowed(u, tid, name) /\ ok

\* stripe.PaymentIntent.create(amount, currency, metadata)
StripeCreate(u, tid, name) ==
    Append(intents,
        [status |-> "requires_payment_method",
         amount |-> IntentAmount(tid, name),
         track_id |-> tid, license_type |-> name, buyer_id |-> u])

\* as CreatePaymentIntent, had the view stored a pending Purchase row when the
\* intent is created
CreatePaymentIntentWithRow(w, u, tid, name, ok) ==
    /\ Start(w)
    /\ CreatesIntent(u, tid, name, ok)
    /\ intents' = StripeCreate(u, tid, name)
    /\ purchases' = Append(purchases,
            [NewPurchase(u, tid, name, Len(intents) + 1, IntentAmount(tid, name))
                EXCEPT !.payment_status = "pending"])
    /\ served' = Append(served, 0)
    /\ renders' = Append(renders, 0)
    /\ issued' = Append(issued, 0)
    /\ Return(w, 200, "client_secret")
    /\ UNCHANGED tracks

CreatePaymentIntent(w, u, tid, name, ok) ==
    /\ Start(w)
    /\ UNCHANGED <<tracks, purchases, served, renders, issued>>
    /\ IF tid = ""
       THEN Return(w, 400, "track_id is required") /\ UNCHANGED intents
       ELSE IF ~ApprovedTrack(tid)
       THEN Return(w, 404, "Track not found") /\ UNCHANGED intents
       ELSE IF ~CreatePaymentIntentAllowed(u, tid, name)
       THEN /\ Return(w, 400, "You already own this track with this license type")
            /\ UNCHANGED intents
       ELSE IF ~ok
       THEN Return(w, 400, "Payment system error") /\ UNCHANGED intents
       ELSE /\ intents' = StripeCreate(u, tid, name)
            /\ Return(w, 200, "client_secret")

(***************************************************************************)
(* The buyer pays through the collaborator's hosted checkout               *)
(***************************************************************************)
PaymentSucceeds(i) ==
    /\ i \in 1..Len(intents)
    /\ intents[i].status = "requires_payment_method"
    /\ intents' = [intents EXCEPT ![i].status = "succeeded"]
    /\ UNCHANGED <<tracks, purchases, req, last, served, renders, issued>>
    /\ UNCHANGED saveVars

(***************************************************************************)
(* confirm_purchase                                                        *)
(***************************************************************************)
\* as PaymentConfirmed, had the view trusted the caller instead of the status
PaymentAssumed(i) == TRUE

\* if intent.status == 'succeeded'
PaymentConfirmed(i) == intents[i].status = "succeeded"

\* stripe.PaymentIntent.retrieve, get_object_or_404(Track),
\* get_object_or_404(LicenseType) and Purchase.objects.create.  The intent's
\* status, once succeeded, and its metadata never change, and the track is
\* read for its purchase_count only, so the reads and the INSERT are one step.
ConfirmPurchase(w, u, i) ==
    /\ Start(w)
    /\ UNCHANGED <<tracks, intents>>
    /\ IF i \notin 1..Len(intents)
       THEN /\ Return(w, 400, "No such payment_intent")
            /\ UNCHANGED <<purchases, served, renders, issued>>
       ELSE IF ~PaymentConfirmed(i)
       THEN /\ Return(w, 400, "Payment was not successful")
            /\ UNCHANGED <<purchases, served, renders, issued>>
       ELSE IF intents[i].track_id \notin DOMAIN tracks
       THEN /\ Return(w, 400, "No Track matches the given query.")
            /\ UNCHANGED <<purchases, served, renders, issued>>
       ELSE IF intents[i].license_type \notin LicenseNames
       THEN /\ Return(w, 400, "No LicenseType matches the given query.")
            /\ UNCHANGED <<purchases, served, renders, issued>>
       ELSE IF InsertRejected(u, intents[i].track_id, intents[i].license_type, i)
       THEN /\ Return(w, 400, "duplicate key value violates unique constraint")
            /\ UNCHANGED <<purchases, served, renders, issued>>
       ELSE /\ purchases' = Append(purchases,
                    NewPurchase(u, intents[i].track_id, intents[i].license_type,
                                i, intents[i].amount))
            /\ served' = Append(served, 0)
            /\ renders' = Append(renders, 0)
            /\ issued' = Append(issued, 0)
            /\ Continue(w, [IdleReq EXCEPT
                    !.pc = "cp_incr",
                    !.track = intents[i].track_id,
                    !.snap = tracks[intents[i].track_id].purchase_count,
                    !.row = tracks[intents[i].track_id]])

\* Track.save(update_fields=['purchase_count']) of the instance row the view
\* read: purchase_count is written from the instance, and an instance without
\* preview_file has _generate_preview run again and preview_file written
SavePurchaseCount(stored, row, snap, pv) ==
    IF row.preview_file
    THEN [stored EXCEPT !.purchase_count = snap + 1]
    ELSE [stored EXCEPT !.purchase_count = snap + 1,
                        !.preview_file = pv /\ stored.audio_on_disk]

\* Track.increment_purchase_count on the Track instance read before the INSERT
IncrementPurchaseCount(w) ==
    LET r == req[w] IN
    /\ r.pc = "cp_incr"
    /\ \E pv \in BOOLEAN :
          tracks' = [tracks EXCEPT
                        ![r.track] = SavePurchaseCount(@, r.row, r.snap, pv)]
    /\ Return(w, 200, "Purchase confirmed successfully")
    /\ UNCHANGED <<purchases, intents, served, renders, issued>>

(***************************************************************************)
(* download_purchased_track                                                *)
(***************************************************************************)
DownloadPurchasedTrack(w, u, p) ==
    /\ Start(w)
    /\ UNCHANGED <<tracks, purchases, intents, served, renders, issued>>
    /\ IF ~OwnedPurchase(u, p)
       THEN Return(w, 400, "No Purchase matches the given query.")
       ELSE IF ~CanDownload(purchases[p])
       THEN Return(w, 403, "Download limit exceeded")
       ELSE IF ~tracks[purchases[p].track].audio_on_disk
       THEN Return(w, 404, "Audio file not found")
       ELSE Continue(w, [IdleReq EXCEPT !.pc = "dl_incr", !.purchase = p,
                                        !.row = purchases[p]])

\* Purchase.increment_download_count on the instance read by the view
IncrementDownloadCount(row) ==
    IF CanDownload(row)
    THEN [row EXCEPT !.download_count = row.download_count + 1]
    ELSE row

\* as RowAfterDownload, had the counter been incremented in the database
\* (download_count = F('download_count') + 1) instead of in the instance
RowAfterDownloadInDb(w) ==
    [purchases[req[w].purchase] EXCEPT
        !.download_count = purchases[req[w].purchase].download_count + 1]

\* as RowAfterDownload, had the download that uses up the quota closed the
\* purchase
RowAfterDownloadRevoking(w) ==
    LET row == IncrementDownloadCount(req[w].row) IN
    [purchases[req[w].purchase] EXCEPT
        !.download_count = row.download_count,
        !.payment_status = IF row.download_count >= row.max_downloads
                           THEN "canceled" ELSE @]

\* the stored row after save(update_fields=['download_count']) of the
\* instance the view read: download_count alone is written
RowAfterDownload(w) ==
    [purchases[req[w].purchase] EXCEPT
        !.download_count = IncrementDownloadCount(req[w].row).download_count]

\* one more FileResponse observed for the purchase
CountServed(n, row) == IF n <= row.max_downloads THEN n + 1 ELSE n

\* purchase.increment_download_count() and the FileResponse that follows it
DownloadServe(w) ==
    LET r == req[w]
        p == r.purchase IN
    /\ r.pc = "dl_incr"
    /\ purchases' = [purchases EXCEPT ![p] = RowAfterDownload(w)]
    /\ served' = [served EXCEPT ![p] = CountServed(served[p], purchases[p])]
    /\ Return(w, 200, "audio file")
    /\ UNCHANGED <<tracks, intents, renders, issued>>

(***************************************************************************)
(* download_license_certificate                                            *)
(***************************************************************************)
\* as NeedsCertificate, had the view rendered on every request
NeedsCertificateAlways(row) == TRUE

\* if not purchase.license_file
NeedsCertificate(row) == row.license_file = 0

\* one more certificate response observed for the purchase
CountIssued(n) == IF n < 2 THEN n + 1 ELSE n

DownloadLicenseCertificate(w, u, p) ==
    /\ Start(w)
    /\ UNCHANGED <<tracks, purchases, intents, served, renders>>
    /\ IF ~OwnedPurchase(u, p)
       THEN /\ Return(w, 400, "No Purchase matches the given query.")
            /\ UNCHANGED issued
       ELSE IF ~NeedsCertificate(purchases[p])
       THEN /\ Return(w, 200, "license certificate")
            /\ issued' = [issued EXCEPT ![p] = CountIssued(issued[p])]
       ELSE /\ Continue(w, [IdleReq EXCEPT !.pc = "lc_render", !.purchase = p,
                                           !.row = purchases[p]])
            /\ UNCHANGED issued

\* generate_license_certificate(purchase): render, then
\* purchase.license_file.save(filename, content, save=True), which saves the
\* whole instance the view read
GenerateLicenseCertificate(w) ==
    LET r == req[w]
        p == r.purchase IN
    /\ r.pc = "lc_render"
    /\ renders' = [renders EXCEPT ![p] = renders[p] + 1]
    /\ purchases' = [purchases EXCEPT
            ![p] = [r.row EXCEPT !.license_file = renders[p] + 1]]
    /\ issued' = [issued EXCEPT ![p] = CountIssued(issued[p])]
    /\ Return(w, 200, "license certificate")
    /\ UNCHANGED <<tracks, intents, served>>

(***************************************************************************)
(* TrackUploadView                                                         *)
(***************************************************************************)
\* permissions.IsAuthenticated
IsAuthenticated(c) == c # Anonymous

\* User.is_artist
IsArtist(c) == c \in DOMAIN Role /\ Role[c] = "artist"

\* as IsArtistOrReadOnly, had the permission let every account write
IsAnyAccount(c) == IsAuthenticated(c)

\* IsArtistOrReadOnly.has_permission for a POST
IsArtistOrReadOnly(c) == IsAuthenticated(c) /\ IsArtist(c)

\* tracks stored by the upload endpoint so far, and the next public_id
Uploaded == Cardinality(DOMAIN tracks) - Cardinality(TrackIds)
NextTrackId == UploadIds[Uploaded + 1]

\* perform_create: serializer.save(artist=request.user, status=Track.APPROVED)
UploadStatus == APPROVED

\* the row Track.save stores for a new track; pv is whether _generate_preview
\* produced a preview file
NewTrack(c, price, pv) ==
    [status |-> UploadStatus, base_price |-> price, audio_on_disk |-> TRUE,
     purchase_count |-> 0, play_count |-> 0, preview_file |-> pv,
     artist |-> c]

\* POST tracks/upload/ by caller c; valid is whether the serializer accepts
\* the form
TrackUpload(w, c, price, valid, pv) ==
    /\ Start(w)
    /\ UNCHANGED <<purchases, intents, served, renders, issued>>
    /\ IF ~IsAuthenticated(c)
       THEN Return(w, 401, "Authentication credentials were not provided.")
            /\ UNCHANGED tracks
       ELSE IF ~IsArtistOrReadOnly(c)
       THEN Return(w, 403, "You do not have permission to perform this action.")
            /\ UNCHANGED tracks
       ELSE IF ~valid
       THEN Return(w, 400, "invalid upload") /\ UNCHANGED tracks
       ELSE /\ tracks' = [t \in DOMAIN tracks \cup {NextTrackId} |->
                            IF t \in DOMAIN tracks THEN tracks[t]
                            ELSE NewTrack(c, price, pv)]
            /\ Return(w, 201, "track created")

(***************************************************************************)
(* Track.increment_play_count by the track detail view and the preview     *)
(* stream                                                                  *)
(***************************************************************************)
\* Track.save(update_fields=['play_count']) of the instance row the view read:
\* play_count is written from the instance, and an instance without
\* preview_file has _generate_preview run again and preview_file written
SavePlayCount(stored, row, pv) ==
    IF row.preview_file
    THEN [stored EXCEPT !.play_count = row.play_count + 1]
    ELSE [stored EXCEPT !.play_count = row.play_count + 1,
                        !.preview_file = pv /\ stored.audio_on_disk]

\* TrackDetailSerializer.get_license_prices
LicensePrices(tid) ==
    [name \in {n \in LicenseNames : LicenseTypes[n].is_active} |->
        GetLicensePrice(tid, name)]

\* GET tracks/<public_id>/: self.get_object()
TrackDetailView(w, tid) ==
    /\ Start(w)
    /\ UNCHANGED <<tracks, purchases, intents, served, renders, issued>>
    /\ IF ~ApprovedTrack(tid)
       THEN Return(w, 404, "No Track matches the given query.")
       ELSE Continue(w, [IdleReq EXCEPT !.pc = "tv_incr", !.track = tid,
                                        !.row = tracks[tid]])

\* track.increment_play_count() and the serialized detail of super().get()
TrackDetailRespond(w, pv) ==
    LET r == req[w] IN
    /\ r.pc = "tv_incr"
    /\ tracks' = [tracks EXCEPT ![r.track] = SavePlayCount(@, r.row, pv)]
    /\ req' = [req EXCEPT ![w] = IdleReq]
    /\ last' = [code |-> 200, msg |-> "track detail",
                body |-> [base_price |-> tracks[r.track].base_price,
                          license_prices |-> LicensePrices(r.track)]]
    /\ UNCHANGED <<purchases, intents, served, renders, issued>>
    /\ UNCHANGED saveVars

\* stream_preview looks for the preview file, then for the main file
PreviewAvailable(row) == row.preview_file \/ row.audio_on_disk

\* GET stream/preview/<track_id>/: every failure is turned into Http404
StreamPreview(w, tid) ==
    /\ Start(w)
    /\ UNCHANGED <<tracks, purchases, intents, served, renders, issued>>
    /\ IF ~ApprovedTrack(tid)
       THEN Return(w, 404, "Preview not found")
       ELSE IF ~PreviewAvailable(tracks[tid])
       THEN Return(w, 404, "Preview not found")
       ELSE Continue(w, [IdleReq EXCEPT !.pc = "sp_incr", !.track = tid,
                                        !.row = tracks[tid]])

\* track.increment_play_count() and the FileResponse of the preview
StreamPreviewServe(w, pv) ==
    LET r == req[w] IN
    /\ r.pc = "sp_incr"
    /\ tracks' = [tracks EXCEPT ![r.track] = SavePlayCount(@, r.row, pv)]
    /\ Return(w, 200, "preview stream")
    /\ UNCHANGED <<purchases, intents, served, renders, issued>>

(***************************************************************************)
(* Specifications                                                          *)
(***************************************************************************)
\* create_payment_intent requests, at most cap intents being created
BeginCreatePaymentIntent(w, users, names, cap) ==
    \E u \in users, tid \in RequestTrackIds, name \in names, ok \in BOOLEAN :
        /\ Len(intents) < cap \/ ~CreatesIntent(u, tid, name, ok)
        /\ CreatePaymentIntent(w, u, tid, name, ok)

BeginConfirmPurchase(w, users, cap) ==
    \E u \in users, i \in 0..cap : ConfirmPurchase(w, u, i)

BeginDownloadPurchasedTrack(w, users, cap) ==
    \E u \in users, p \in 0..cap : DownloadPurchasedTrack(w, u, p)

BeginDownloadLicenseCertificate(w, users, cap) ==
    \E u \in users, p \in 0..cap : DownloadLicenseCertificate(w, u, p)

Pay(cap) == \E i \in 1..cap : PaymentSucceeds(i)

\* Purchase flow: create_payment_intent, payment and confirm_purchase handled
\* concurrently by independent workers, for every buyer of one license tier.
PurchaseStep(w) ==
    \/ BeginCreatePaymentIntent(w, Users, {"extended"}, MaxIntents)
    \/ BeginConfirmPurchase(w, Users, MaxIntents)
    \/ IncrementPurchaseCount(w)

Next ==
    \/ ResponseSent
    \/ last = NoResp /\ \E w \in Workers : PurchaseStep(w)
    \/ last = NoResp /\ Pay(MaxIntents)

Spec == Init /\ [][Next]_vars

\* Every operation, handled concurrently by independent workers, for one buyer
\* and one license tier; any authenticated user may ask for a download.
DlStep(w) ==
    \/ BeginCreatePaymentIntent(w, {"u1"}, {"extended"}, MaxDlIntents)
    \/ BeginConfirmPurchase(w, {"u1"}, MaxDlIntents)
    \/ BeginDownloadPurchasedTrack(w, Users, MaxDlIntents)
    \/ BeginDownloadLicenseCertificate(w, Users, MaxDlIntents)
    \/ IncrementPurchaseCount(w)
    \/ DownloadServe(w)
    \/ GenerateLicenseCertificate(w)

DlNext ==
    \/ ResponseSent
    \/ last = NoResp /\ \E w \in Workers : DlStep(w)
    \/ last = NoResp /\ Pay(MaxDlIntents)

DlSpec == Init /\ [][DlNext]_vars

\* Every operation, for every buyer and license tier, handled one after the
\* other: a worker takes a step only while no other request is in flight.
SeqStep(w) ==
    \/ BeginCreatePaymentIntent(w, Users, RequestLicenseNames, MaxSeqIntents)
    \/ BeginConfirmPurchase(w, Users, MaxSeqIntents)
    \/ BeginDownloadPurchasedTrack(w, Users, MaxSeqIntents)
    \/ BeginDownloadLicenseCertificate(w, Users, MaxSeqIntents)
    \/ IncrementPurchaseCount(w)
    \/ DownloadServe(w)
    \/ GenerateLicenseCertificate(w)

SeqNext ==
    \/ ResponseSent
    \/ /\ last = NoResp
       /\ \E w \in Workers : (\A v \in Workers \ {w} : Idle(v)) /\ SeqStep(w)
    \/ last = NoResp /\ Pay(MaxSeqIntents)

SeqSpec == Init /\ [][SeqNext]_vars

\* track ids a catalogue request may carry: stored, uploaded, unknown
CatTrackIds == {"t1", "t2", "tX"} \cup {UploadIds[k] : k \in 1..MaxUploads}

BeginTrackUpload(w) ==
    \E c \in Callers, price \in BasePrices, valid \in BOOLEAN, pv \in BOOLEAN :
        /\ Uploaded < MaxUploads \/ ~(IsArtistOrReadOnly(c) /\ valid)
        /\ TrackUpload(w, c, price, valid, pv)

\* plays counted over the tracks S
RECURSIVE SumPlays(_)
SumPlays(S) ==
    IF S = {} THEN 0
    ELSE LET t == CHOOSE x \in S : TRUE
         IN  tracks[t].play_count + SumPlays(S \ {t})

\* a view of a track, accepted while fewer than MaxPlays plays are counted
BeginTrackDetailView(w) ==
    \E tid \in CatTrackIds :
        /\ ApprovedTrack(tid) => SumPlays(DOMAIN tracks) < MaxPlays
        /\ TrackDetailView(w, tid)

BeginStreamPreview(w) ==
    \E tid \in CatTrackIds :
        /\ ApprovedTrack(tid) => SumPlays(DOMAIN tracks) < MaxPlays
        /\ StreamPreview(w, tid)

\* The catalogue: uploads, track detail views and preview streams, handled
\* concurrently by independent workers.
CatStep(w) ==
    \/ BeginTrackUpload(w)
    \/ BeginTrackDetailView(w)
    \/ BeginStreamPreview(w)
    \/ \E pv \in BOOLEAN : TrackDetailRespond(w, pv)
    \/ \E pv \in BOOLEAN : StreamPreviewServe(w, pv)

CatNext ==
    \/ ResponseSent
    \/ last = NoResp /\ \E w \in Workers : CatStep(w)

CatSpec == Init /\ [][CatNext]_vars

(***************************************************************************)
(* Properties                                                              *)
(***************************************************************************)
\* a stored Purchase row of buyer u for track tid under tier name
HasRow(u, tid, name) ==
    \E p \in 1..Len(purchases) :
        /\ purchases[p].buyer = u
        /\ purchases[p].track = tid
        /\ purchases[p].license_type = name

\* C1: in every reachable state there is at most one Purchase row for each
\* (buyer, track, license tier) triple, whatever confirm_purchase calls were
\* made and however they interleaved.
C1_OnePurchasePerTriple ==
    \A p, q \in 1..Len(purchases) :
        ( /\ purchases[p].buyer = purchases[q].buyer
          /\ purchases[p].track = purchases[q].track
          /\ purchases[p].license_type = purchases[q].license_type ) => p = q

\* two succeeded intents of one (track, tier), one of them confirmed by a
\* buyer whose confirm of the other has just been refused
C1_Witness ==
    /\ last = Response(400, "duplicate key value violates unique constraint")
    /\ \E i, j \in 1..Len(intents) :
        /\ i # j
        /\ intents[i].status = "succeeded" /\ intents[j].status = "succeeded"
        /\ intents[i].license_type = intents[j].license_type
        /\ \E p \in 1..Len(purchases) : purchases[p].intent = i
        /\ \A p \in 1..Len(purchases) : purchases[p].intent # j

\* C2: once a confirm_purchase for (B, Tr, L) has succeeded, every further
\* confirm_purchase of B for a succeeded intent of (Tr, L) returns an error
\* and leaves the Purchase rows and the track's purchase_count as they were.
C2_SecondConfirmRefused ==
    [][ \A w \in Workers, u \in Users, i \in 1..MaxIntents :
          ( /\ i <= Len(intents)
            /\ intents[i].status = "succeeded"
            /\ HasRow(u, intents[i].track_id, intents[i].license_type)
            /\ ConfirmPurchase(w, u, i) )
          => ( /\ last'.code >= 400
               /\ purchases' = purchases
               /\ \A t \in TrackIds :
                    tracks'[t].purchase_count = tracks[t].purchase_count ) ]_vars

\* a second confirm has been refused while the first one's purchase is stored
\* and counted
C2_Witness ==
    /\ last.code = 400
    /\ last.msg = "duplicate key value violates unique constraint"
    /\ Len(purchases) = 1
    /\ tracks[purchases[1].track].purchase_count = 1
    /\ \A w \in Workers : req[w].pc = "idle"

\* C3: a Purchase row with payment_status 'succeeded' exists only for an
\* intent the payment collaborator reports as 'succeeded'; a confirm_purchase
\* for an intent in any other status creates no row, leaves purchase_count
\* unchanged and answers that the payment failed.
C3_OnlyConfirmedPayments ==
    /\ [](\A p \in 1..Len(purchases) :
            purchases[p].payment_status = "succeeded"
                => intents[purchases[p].intent].status = "succeeded")
    /\ [][ \A w \in Workers, u \in Users, i \in 1..MaxIntents :
             ( /\ i <= Len(intents)
               /\ intents[i].status # "succeeded"
               /\ ConfirmPurchase(w, u, i) )
             => ( /\ last' = Response(400, "Payment was not successful")
                  /\ purchases' = purchases
                  /\ tracks' = tracks ) ]_vars

\* a confirm for an unpaid intent has been refused next to a paid, confirmed one
C3_Witness ==
    /\ last = Response(400, "Payment was not successful")
    /\ Len(purchases) >= 1
    /\ \E i \in 1..Len(intents) : intents[i].status # "succeeded"

\* C4: create_payment_intent never changes the local store: whatever its
\* input and outcome, the Purchase rows and the Track rows after the call are
\* those before it.
C4_CreateIntentLeavesStore ==
    [][ \A w \in Workers, u \in Users, tid \in RequestTrackIds,
           name \in LicenseNames, ok \in BOOLEAN :
          CreatePaymentIntent(w, u, tid, name, ok)
              => purchases' = purchases /\ tracks' = tracks ]_vars

\* two intents have been created and no Purchase row exists
C4_Witness ==
    /\ Len(intents) = 2
    /\ purchases = <<>>
    /\ last = Response(200, "client_secret")

\* C5: create_payment_intent has the collaborator create an intent only when
\* the track is stored with status approved and the buyer has no succeeded
\* Purchase of (track, tier); for an unknown or unapproved track it answers
\* 404, for an owned (track, tier) it answers the duplicate-ownership error,
\* both without an intent being created.
C5_CreateIntentPreconditions ==
    [][ \A w \in Workers, u \in Users, tid \in RequestTrackIds,
           name \in LicenseNames, ok \in BOOLEAN :
          LET approved == tid \in TrackIds /\ tracks[tid].status = "approved"
              owned == \E p \in 1..Len(purchases) :
                          /\ purchases[p].buyer = u
                          /\ purchases[p].track = tid
                          /\ purchases[p].license_type = name
                          /\ purchases[p].payment_status = "succeeded"
          IN  CreatePaymentIntent(w, u, tid, name, ok)
              => /\ intents' # intents => approved /\ ~owned
                 /\ (tid # "" /\ ~approved)
                        => last'.code = 404 /\ intents' = intents
                 /\ (approved /\ owned)
                        => /\ last' = Response(400,
                                "You already own this track with this license type")
                           /\ intents' = intents ]_vars

\* the buyer of a purchase has asked for a new intent for what they own, and
\* has been refused
C5_Witness ==
    /\ last = Response(400, "You already own this track with this license type")
    /\ Len(purchases) >= 1

\* C6: requests handled one after the other, audio file on disk: a download
\* request of the buyer is served while download_count < max_downloads and
\* each served request adds one to download_count; once download_count has
\* reached max_downloads every request gets 403 and changes nothing.  So of a
\* purchase created with download_count 0 exactly the first max_downloads
\* requests are served.
C6_QuotaSequential ==
    /\ [](\A p \in 1..Len(purchases) :
            /\ served[p] = purchases[p].download_count
            /\ served[p] <= purchases[p].max_downloads)
    /\ [][ \A w \in Workers, u \in Users, p \in 1..(MaxSeqIntents + 1) :
             ( /\ p <= Len(purchases)
               /\ purchases[p].buyer = u
               /\ tracks[purchases[p].track].audio_on_disk
               /\ DownloadPurchasedTrack(w, u, p) )
             => IF purchases[p].download_count < purchases[p].max_downloads
                THEN req'[w].pc = "dl_incr" /\ req'[w].purchase = p
                ELSE /\ last' = Response(403, "Download limit exceeded")
                     /\ purchases' = purchases
                     /\ served' = served ]_vars
    /\ [][ \A w \in Workers :
             DownloadServe(w)
             => LET p == req[w].purchase IN
                /\ purchases'[p].download_count = purchases[p].download_count + 1
                /\ served'[p] = served[p] + 1
                /\ last' = Response(200, "audio file") ]_vars

\* the request after the last permitted download has been refused
C6_Witness ==
    /\ last = Response(403, "Download limit exceeded")
    /\ \E p \in 1..Len(purchases) :
        /\ purchases[p].download_count = DefaultMaxDownloads
        /\ served[p] = DefaultMaxDownloads

\* C7: in every reachable state, however download requests interleave, every
\* Purchase has download_count <= max_downloads.
C7_DownloadCountBounded ==
    \A p \in 1..Len(purchases) :
        purchases[p].download_count <= purchases[p].max_downloads

\* the quota is used up while another download request, which read the row
\* earlier, is still to save its count
C7_Witness ==
    \E w \in Workers :
        /\ req[w].pc = "dl_incr"
        /\ req[w].row.download_count < purchases[req[w].purchase].download_count
        /\ purchases[req[w].purchase].download_count
                = purchases[req[w].purchase].max_downloads

\* C8: however concurrent download requests for one purchase interleave, the
\* number of requests served the audio file never exceeds max_downloads.
C8_ServedWithinQuota ==
    \A p \in 1..Len(purchases) : served[p] <= purchases[p].max_downloads

\* C9: once a Purchase row is stored with payment_status 'succeeded', no step
\* of any operation changes its payment_status or removes it; a purchase whose
\* quota is used up is still 'succeeded'.
C9_SucceededForever ==
    [][ /\ Len(purchases') >= Len(purchases)
        /\ \A p \in 1..Len(purchases) :
             purchases[p].payment_status = "succeeded"
                => purchases'[p].payment_status = "succeeded" ]_vars

\* a download has been refused for a used-up quota, after a certificate was
\* issued, and the purchase is still succeeded
C9_Witness ==
    /\ last.code = 403
    /\ \E p \in 1..Len(purchases) :
        /\ purchases[p].payment_status = "succeeded"
        /\ purchases[p].download_count >= purchases[p].max_downloads
        /\ purchases[p].license_file # 0

C11_PriceRoundedToCents ==
    last.msg = "track detail" =>
        \A name \in DOMAIN last.body.license_prices :
            last.body.license_prices[name] =
                100 * RoundHalfEven(last.body.base_price
                                      * LicenseTypes[name].price_multiplier, 100)

\* the name matches an active LicenseType
ActiveTier(name) == name \in LicenseNames /\ LicenseTypes[name].is_active

\* C12: for a license_type name that matches no active LicenseType (unknown,
\* or a tier with is_active false) get_license_price is the track's
\* base_price, and the intent create_payment_intent has created for such a
\* name asks for exactly base_price.
C12_FallbackToBasePrice ==
    /\ \A tid \in DOMAIN tracks, name \in RequestLicenseNames :
          ~ActiveTier(name)
              => GetLicensePrice(tid, name) = 100 * tracks[tid].base_price
    /\ \A i \in 1..Len(intents) :
          ~ActiveTier(intents[i].license_type)
              => intents[i].amount = tracks[intents[i].track_id].base_price

\* an intent has been created for a name that is not an active tier, at the
\* base price of the track
C12_Witness ==
    \E i \in 1..Len(intents) :
        /\ ~ActiveTier(intents[i].license_type)
        /\ intents[i].amount = tracks[intents[i].track_id].base_price
        /\ last = Response(200, "client_secret")

\* C13: the amount of every intent create_payment_intent has created is
\* round(price x 100) minor units, the price of get_license_price rounded to
\* the nearest cent.
C13_AmountRoundedToNearestCent ==
    \A i \in 1..Len(intents) :
        intents[i].amount =
            RoundHalfEven(GetLicensePrice(intents[i].track_id,
                                          intents[i].license_type), 100)

\* C14: every Purchase row confirm_purchase has created has payment_status
\* 'succeeded' and a price_paid that is the amount the collaborator reports
\* for the row's intent (minor units / 100; price_paid is held in cents).
C14_PricePaidIsAuthorizedAmount ==
    \A p \in 1..Len(purchases) :
        /\ purchases[p].payment_status = "succeeded"
        /\ purchases[p].price_paid = intents[purchases[p].intent].amount

\* a confirm has succeeded for an intent of 2507 minor units, which is not the
\* rounded local price, and the row holds 25.07
C14_Witness ==
    /\ last = Response(200, "Purchase confirmed successfully")
    /\ \E p \in 1..Len(purchases) :
          /\ purchases[p].price_paid = 2507
          /\ intents[purchases[p].intent].amount = 2507
          /\ RoundHalfEven(GetLicensePrice(purchases[p].track,
                                           purchases[p].license_type), 100) = 2508

\* C15: once every confirm_purchase call has completed, the purchase_count of
\* a track is its initial value, 0, plus the number of Purchase rows created
\* for the track.
C15_NoLostPurchaseIncrement ==
    (\A w \in Workers : Idle(w))
        => \A t \in DOMAIN tracks :
              tracks[t].purchase_count =
                  Cardinality({p \in 1..Len(purchases) : purchases[p].track = t})

\* C16: from one state to the next, Track.play_count, Track.purchase_count
\* and Purchase.download_count never decrease.
C16_CountersNeverDecrease ==
    [][ /\ \A t \in DOMAIN tracks :
             /\ tracks'[t].play_count >= tracks[t].play_count
             /\ tracks'[t].purchase_count >= tracks[t].purchase_count
        /\ \A p \in 1..Len(purchases) :
             purchases'[p].download_count >= purchases[p].download_count ]_vars

\* C17: an operation given an identifier of a track, purchase or license tier
\* that is not stored answers 404.
C17_UnknownIdentifierIs404 ==
    [][ \A w \in Workers, u \in Users :
          /\ \A tid \in RequestTrackIds \ {""}, name \in RequestLicenseNames,
                ok \in BOOLEAN :
                (/\ CreatePaymentIntent(w, u, tid, name, ok)
                 /\ tid \notin DOMAIN tracks \/ name \notin LicenseNames)
                    => last'.code = 404
          /\ \A i \in 1..Len(intents) :
                (/\ ConfirmPurchase(w, u, i)
                 /\ PaymentConfirmed(i)
                 /\ \/ intents[i].track_id \notin DOMAIN tracks
                    \/ intents[i].license_type \notin LicenseNames)
                    => last'.code = 404
          /\ \A p \in 0..(Len(purchases) + 1) :
                (/\ p \notin PurchaseIds
                 /\ \/ DownloadPurchasedTrack(w, u, p)
                    \/ DownloadLicenseCertificate(w, u, p))
                    => last'.code = 404
          /\ \A tid \in RequestTrackIds :
                (StreamPreview(w, tid) /\ tid \notin DOMAIN tracks)
                    => last'.code = 404 ]_vars

\* C18: a request to download_purchased_track or download_license_certificate
\* for a stored purchase by a user who is not its buyer, or for a purchase
\* that is not succeeded, is refused: it gets an error response, the handler
\* ends there (nothing is served or rendered for it), and no state changes.
C18_OnlyBuyerDownloads ==
    [][ \A w \in Workers, u \in Users, p \in 1..Len(purchases) :
          (/\ purchases[p].buyer # u \/ purchases[p].payment_status # "succeeded"
           /\ \/ DownloadPurchasedTrack(w, u, p)
              \/ DownloadLicenseCertificate(w, u, p))
              => /\ last'.code >= 400
                 /\ Idle(w)'
                 /\ purchases' = purchases
                 /\ tracks' = tracks
                 /\ served' = served /\ issued' = issued /\ renders' = renders
      ]_vars

\* the buyer has downloaded the track and holds a certificate, and a request
\* for a purchase has just been refused as not found
C18_Witness ==
    /\ last = Response(400, "No Purchase matches the given query.")
    /\ \E p \in 1..Len(purchases) :
          /\ purchases[p].buyer = "u1"
          /\ served[p] >= 1
          /\ issued[p] >= 1

\* C19: a Track row is created only by an upload of an authenticated caller
\* whose role is artist, and is stored under that artist; an upload by a buyer
\* or by a caller without credentials is rejected (401 or 403) and leaves the
\* Track table as it was.
C19_OnlyArtistsUpload ==
    [][ /\ \A t \in DOMAIN tracks' \ DOMAIN tracks :
              /\ tracks'[t].artist \in DOMAIN Role
              /\ Role[tracks'[t].artist] = "artist"
              /\ \E w \in Workers, price \in BasePrices, pv \in BOOLEAN :
                    TrackUpload(w, tracks'[t].artist, price, TRUE, pv)
        /\ \A w \in Workers, c \in Callers, price \in BasePrices,
              valid \in BOOLEAN, pv \in BOOLEAN :
              (/\ c = Anonymous \/ Role[c] # "artist"
               /\ TrackUpload(w, c, price, valid, pv))
                  => last'.code \in {401, 403} /\ tracks' = tracks ]_vars

\* a buyer's upload has been refused after an artist's upload was stored
C19_Witness ==
    /\ last = Response(403, "You do not have permission to perform this action.")
    /\ DOMAIN tracks # TrackIds

\* C20: a track's status follows draft -> pending -> approved | rejected: a
\* track is created in draft, becomes pending only from draft, and becomes
\* approved or rejected only from pending.
C20_StatusLifecycle ==
    [][ \A t \in DOMAIN tracks' :
          IF t \notin DOMAIN tracks
          THEN tracks'[t].status = DRAFT
          ELSE \/ tracks'[t].status = tracks[t].status
               \/ tracks[t].status = DRAFT /\ tracks'[t].status = PENDING
               \/ /\ tracks[t].status = PENDING
                  /\ tracks'[t].status \in {APPROVED, REJECTED} ]_vars

\* C28: every Purchase row belongs to the buyer recorded in the metadata of
\* the row's payment intent (buyer_id), the user who created the intent.
C28_PurchaseOfIntentBuyer ==
    \A p \in 1..Len(purchases) :
        purchases[p].buyer = intents[purchases[p].intent].buyer_id

\* C29: a confirm_purchase by the buyer of an intent that the collaborator
\* reports as succeeded and for which no Purchase row exists creates a row.
C29_SucceededIntentConfirmable ==
    [][ \A w \in Workers, u \in Users, i \in 1..Len(intents) :
          (/\ intents[i].buyer_id = u
           /\ PaymentConfirmed(i)
           /\ ~UniqueIntentViolated(i)
           /\ ConfirmPurchase(w, u, i))
              => /\ Len(purchases') = Len(purchases) + 1
                 /\ purchases'[Len(purchases')].intent = i ]_vars

\* |x|
Abs(x) == IF x < 0 THEN -x ELSE x

\* C30: the price_paid of every Purchase row is within one cent of the
\* track's base_price x the price_multiplier of the row's license tier,
\* whether the tier is active or not (prices compared in 1/10000 units).
C30_PricePaidIsTierPrice ==
    \A p \in 1..Len(purchases) :
        Abs(100 * purchases[p].price_paid
              - tracks[purchases[p].track].base_price
                  * LicenseTypes[purchases[p].license_type].price_multiplier)
            <= 100

\* C25: no operation on a stored track derives its preview again: a save made
\* by increment_play_count or increment_purchase_count writes the counter it
\* names and leaves preview_file as the first save left it.
C25_NoPreviewRetry ==
    [][ \A t \in DOMAIN tracks :
          /\ tracks'[t].preview_file = tracks[t].preview_file
          /\ tracks'[t].status = tracks[t].status
          /\ tracks'[t].base_price = tracks[t].base_price ]_vars

\* the latest save() went through the step e
Logged(e) == \E k \in 1..Len(log) : log[k] = e

\* the preview p is the whole of the audio it was cut from
WholeTrack(p) == p.start = 0 /\ p.len = AudioFiles[p.of].ms

\* C21 (as stated): a generated preview of a track whose duration in whole
\* seconds is at most 30, audio of 30.001 to 30.999 seconds included, is the
\* entire track.
C21_PreviewOfShortTrackBySeconds ==
    inst.preview_file.kind = "generated"
        /\ DurationSeconds(AudioFiles[inst.preview_file.of].ms) <= 30
    => WholeTrack(inst.preview_file)

\* C21 (amended): a generated preview of a track whose decoded length is at most
\* 30000 milliseconds is the entire track.
C21_PreviewOfShortTrackIsWhole ==
    inst.preview_file.kind = "generated"
        /\ AudioFiles[inst.preview_file.of].ms <= PreviewDurationMs
    => WholeTrack(inst.preview_file)

\* a track of exactly 30000 ms has its generated preview written to its row
C21_Witness ==
    /\ call.pc = "idle"
    /\ persisted.preview_file.kind = "generated"
    /\ persisted.preview_file = inst.preview_file
    /\ AudioFiles[persisted.preview_file.of].ms = PreviewDurationMs

\* C22 (as stated): a generated preview of a track of more than 30 whole seconds
\* starts at floor(duration / 4) seconds and lasts min(30, duration - start)
\* seconds, duration being the track's duration in seconds.
C22_PreviewClipInSeconds ==
    LET p == inst.preview_file
        d == DurationSeconds(AudioFiles[p.of].ms)
    IN  p.kind = "generated" /\ d > 30
        => /\ p.start = 1000 * (d \div 4)
           /\ p.len = 1000 * MinOf(30, d - d \div 4)

\* C22 (amended): a generated preview of a track of more than 30 whole seconds
\* starts at floor(ms / 4) milliseconds, ms being the decoded length in
\* milliseconds, and lasts min(30000, ms - start) milliseconds.
C22_PreviewClipInMilliseconds ==
    LET p == inst.preview_file
        ms == AudioFiles[p.of].ms
    IN  p.kind = "generated" /\ DurationSeconds(ms) > 30
        => /\ p.start = ms \div 4
           /\ p.len = MinOf(PreviewDurationMs, ms - ms \div 4)

\* a track of more than 40 seconds has its 30-second preview written to its row
C22_Witness ==
    /\ call.pc = "idle"
    /\ persisted.preview_file.kind = "generated"
    /\ DurationSeconds(AudioFiles[persisted.preview_file.of].ms) > 30
    /\ persisted.preview_file.len = PreviewDurationMs

\* the four columns metadata extraction fills are null on i
DerivedUnset(i) ==
    /\ i.duration = Unset /\ i.file_size = Unset
    /\ i.bitrate = Unset /\ i.sample_rate = Unset

\* C23: when metadata extraction fails, at the decoding or at the detailed-info
\* read, the four derived fields that were unset stay unset, and the save goes on
\* to persist the track.
C23_FailedExtractionLeavesFieldsUnset ==
    [][ /\ ( /\ call.pc = "extract"
             /\ \E k \in 1..Len(log') : log'[k] = "extract_error"
             /\ DerivedUnset(inst) )
           => DerivedUnset(inst')
        /\ ( /\ call.pc # "idle" /\ call'.pc = "idle"
             /\ Logged("extract_error") )
           => persisted'.pk ]_vars

\* C24: preview generation is entered only by a track's first save and only
\* when the track has no preview, and no step of a save replaces a preview the
\* track already has.
C24_PreviewOnlyOnFirstSaveWithoutPreview ==
    [][ /\ call'.pc = "preview"
           => call'.is_new /\ inst'.preview_file = NoPreview
        /\ call.pc # "idle" /\ inst.preview_file # NoPreview
           => inst'.preview_file = inst.preview_file ]_vars

\* the running save writes an audio file other than the one in the track's row
ReplacesAudio ==
    /\ ~call.is_new
    /\ inst.audio_file.name # persisted.audio_file
    /\ ~call.kwargs.given \/ "audio_file" \in call.kwargs.update_fields

\* C26: a save has run metadata extraction exactly when it is the track's first
\* save or it replaces the track's audio file, with or without update_fields.
C26_ExtractionIffFirstSaveOrAudioReplaced ==
    call.pc = "write" => (Logged("extract") <=> call.is_new \/ ReplacesAudio)

\* C27: when a first save is about to extract metadata the audio file is
\* already committed to storage, and when it is about to derive the preview
\* the extraction has run.
C27_PersistThenExtractThenPreview ==
    /\ call.pc = "extract" /\ call.is_new => inst.audio_file.committed
    /\ call.pc = "preview" /\ call.is_new => Logged("extract")

====
